---- MODULE Spec2Model ----
(***************************************************************************)
(* aw-fakedata: the synthetic activity generator of src/aw_fakedata.py.    *)
(*                                                                         *)
(* Time is counted in whole seconds since 2024-01-01T00:00:00Z (a Monday); *)
(* a datetime is that count, a date is the count of days, a timedelta is a *)
(* number of seconds.  The process-wide random source is a seeded linear   *)
(* congruential generator: its state is the variable rng, every draw steps *)
(* it once, and random.seed sets it from the seed value alone.             *)
(*                                                                         *)
(* uniform and choices read a draw off the state of the source the way     *)
(* random.uniform and random.choices compute it from random(); durations   *)
(* are rounded down to whole seconds.  Event is the record of the three    *)
(* values passed to its constructor.                                       *)
(*                                                                         *)
(* The program is one sequential process.  pc is its position; every loop  *)
(* iteration and every loop exit of random_events, generate_activity,      *)
(* generate_days and generate is one action, and each function's locals    *)
(* are variables named as in the source.                                   *)
(***************************************************************************)
EXTENDS Integers, Sequences, FiniteSets, TLC

\* ------------------------------------------------------------------ bounds
MaxSeed == 5        \* the random source starts in one of the states seed(0..MaxSeed)
MaxConsume == 2     \* draws other code may take from the shared source between calls
MaxDay == 1         \* generate / generate_days ranges start and stop on days 0..MaxDay
MaxActHours == 3    \* generate_activity is called directly on intervals of 0..MaxActHours hours
MaxRuns == 2        \* runs of generate in one behaviour
MaxPackLen == 3     \* random_events is called directly on intervals of 0..MaxPackLen half hours

\* ------------------------------------------------------- program constants
SecondsPerMinute == 60
SecondsPerHour == 3600
SecondsPerDay == 86400
DaysPerWeek == 7
day_offset_hours == 8
duration_max_default == 7200

bucket_window == "aw-watcher-window_fakedata"
bucket_afk == "aw-watcher-afk_fakedata"
bucket_browser_chrome == "aw-watcher-web-chrome_fakedata"
bucket_browser_firefox == "aw-watcher-web-firefox_fakedata"

\* the keys of the mapping generate_activity returns, in insertion order
BucketOrder ==
  << bucket_window, bucket_afk, bucket_browser_chrome, bucket_browser_firefox >>

BucketIds == { BucketOrder[i] : i \in 1..Len(BucketOrder) }

\* "$weight" and "$duration" are the fields weight and duration of a template
sample_data_afk ==
  << [status |-> "not-afk", weight |-> 1, duration |-> 120],
     [status |-> "afk", weight |-> 1, duration |-> 10] >>

sample_data_window ==
  << [app |-> "zoom", title |-> "Zoom Meeting", weight |-> 3, duration |-> 20],
     [app |-> "Minecraft", title |-> "Minecraft", weight |-> 2, duration |-> 200],
     [app |-> "Firefox",
      title |-> "ActivityWatch/activitywatch: Track how you spend your time - github.com/",
      weight |-> 20, duration |-> 5],
     [app |-> "Terminal", title |-> "vim ~/code/activitywatch/other/aw-fakedata",
      weight |-> 10],
     [app |-> "Terminal", title |-> "vim ~/code/activitywatch/README.md",
      weight |-> 3, duration |-> 5],
     [app |-> "Terminal", title |-> "vim ~/code/activitywatch/aw-server", weight |-> 5],
     [app |-> "Terminal", title |-> "bash ~/code/activitywatch", weight |-> 5],
     [app |-> "Firefox", title |-> "Gmail - mail.google.com/",
      weight |-> 5, duration |-> 10],
     [app |-> "Firefox", title |-> "Stack Overflow - stackoverflow.com/",
      weight |-> 10, duration |-> 5],
     [app |-> "Firefox", title |-> "Google Calendar - calendar.google.com/",
      weight |-> 5, duration |-> 2],
     [app |-> "Firefox", title |-> "reddit: the front page of the internet - reddit.com/",
      weight |-> 10, duration |-> 10],
     [app |-> "Firefox", title |-> "Home / Twitter - twitter.com/",
      weight |-> 10, duration |-> 8],
     [app |-> "Firefox", title |-> "Facebook - facebook.com/",
      weight |-> 10, duration |-> 3],
     [app |-> "Chrome", title |-> "Unknown site", weight |-> 2],
     [app |-> "Spotify", title |-> "Spotify", weight |-> 8, duration |-> 3],
     [app |-> "Chrome", title |-> "YouTube - youtube.com/",
      weight |-> 4, duration |-> 25] >>

sample_data_browser ==
  << [title |-> "GitHub", url |-> "https://github.com", weight |-> 10, duration |-> 10],
     [title |-> "Twitter", url |-> "https://twitter.com", weight |-> 3, duration |-> 5],
     [title |-> "YouTube", url |-> "https://youtube.com", weight |-> 5, duration |-> 20] >>

\* --------------------------------------------------- the shared random source
RngModulus == 65537
RngMultiplier == 75
RngIncrement == 74
SeedModulus == 65536
SeedMultiplier == 7919

\* random.seed(x): the state of the source becomes a function of x alone
seed(x) == ((x % SeedModulus) * SeedMultiplier) % SeedModulus

\* the state of the source after one more draw
NextRng(r) == (RngMultiplier * r + RngIncrement) % RngModulus

\* random.uniform(a, b) read off the state r of the source: a + (b - a) * random(),
\* where random() is r / RngModulus in [0, 1); rounded down to the time unit
uniform(a, b, r) == a + ((b - a) * r) \div RngModulus

RECURSIVE SumWeights(_, _)
SumWeights(catalog, n) ==
  IF n = 0 THEN 0 ELSE SumWeights(catalog, n - 1) + catalog[n].weight

\* random.choices(sample_data, weights=[d["$weight"] ...])[0] read off the state r:
\* the first template whose cumulative weight exceeds random() * total
choices(catalog, r) ==
  LET total == SumWeights(catalog, Len(catalog))
      x == (total * r) \div RngModulus
      n == CHOOSE m \in 1..Len(catalog) :
             /\ SumWeights(catalog, m) > x
             /\ \A l \in 1..(m - 1) : SumWeights(catalog, l) <= x
  IN catalog[n]

Min(a, b) == IF a <= b THEN a ELSE b

\* Event(timestamp=..., duration=..., data=...)
Event(timestamp, duration, data) ==
  [timestamp |-> timestamp, duration |-> duration, data |-> data]

\* DrawDuration with the 0.5x-2x factor truncated to a whole number before it is used
DrawDuration_truncated(data, dmax, r) ==
  IF "duration" \in DOMAIN data
    THEN (uniform(1, 4, r) \div 2) * data.duration * SecondsPerMinute
    ELSE uniform(5, dmax, r)

\* the duration an iteration of random_events draws for the template data, the
\* source being in state r: 0.5x to 2x the "$duration" minutes, or 5 s to
\* duration_max_default seconds when the template has no "$duration"
DrawDuration(data, dmax, r) ==
  IF "duration" \in DOMAIN data
    THEN uniform(data.duration * (SecondsPerMinute \div 2),
                 data.duration * (SecondsPerMinute * 2), r)
    ELSE uniform(5, dmax, r)

\* Iteration without the clipping of the event to the end of the interval
Iteration_spill(cursor, limit, catalog, dmax, r) ==
  LET r1 == NextRng(r)
      data == choices(catalog, r1)
      r2 == NextRng(r1)
      duration == DrawDuration(data, dmax, r2)
  IN [e |-> Event(cursor, duration, data), rng |-> r2]

\* one iteration of the loop of random_events at cursor ts: the event it emits and
\* the state of the source after its two draws
Iteration(cursor, limit, catalog, dmax, r) ==
  LET r1 == NextRng(r)
      data == choices(catalog, r1)
      r2 == NextRng(r1)
      duration == DrawDuration(data, dmax, r2)
      end == Min(limit, cursor + duration)
  IN [e |-> Event(cursor, end - cursor, data), rng |-> r2]

\* str.lower() on the application names of sample_data_window
lower(s) ==
  CASE s = "Firefox" -> "firefox"
    [] s = "Chrome" -> "chrome"
    [] s = "Minecraft" -> "minecraft"
    [] s = "Terminal" -> "terminal"
    [] s = "Spotify" -> "spotify"
    [] OTHER -> s

\* the tests of the loops of generate_activity, and the first two of them gone wrong
IsNotAfk_inverted(event) == event.data.status = "afk"

IsFirefox_chrome(event) == lower(event.data.app) = "chrome"

IsNotAfk(event) == event.data.status = "not-afk"

IsFirefox(event) == lower(event.data.app) = "firefox"

IsChrome(event) == lower(event.data.app) = "chrome"

\* a dict whose keys are bucket ids: its keys in insertion order and its values
Dict(keys, items) == [keys |-> keys, items |-> items]

EmptyDict == Dict(<< >>, << >>)

HasKey(d, key) == \E n \in 1..Len(d.keys) : d.keys[n] = key

\* d[key] of a defaultdict(list)
Get(d, key) ==
  IF HasKey(d, key)
    THEN d.items[CHOOSE n \in 1..Len(d.keys) : d.keys[n] = key]
    ELSE << >>

\* d[key] = v
Put(d, key, v) ==
  IF HasKey(d, key)
    THEN Dict(d.keys,
              [n \in 1..Len(d.keys) |-> IF d.keys[n] = key THEN v ELSE d.items[n]])
    ELSE Dict(Append(d.keys, key), Append(d.items, v))

\* for key in d2: dres[key].extend(d2[key])  (also buckets[bucket] += events),
\* from the n-th key of d2 on
RECURSIVE extend_loop(_, _, _)
extend_loop(dres, d2, n) ==
  IF n > Len(d2.keys)
    THEN dres
    ELSE extend_loop(Put(dres, d2.keys[n], Get(dres, d2.keys[n]) \o d2.items[n]),
                     d2, n + 1)

\* merge_activity with its arguments exchanged
merge_activity_swapped(dict1, dict2) == extend_loop(dict2, dict1, 1)

merge_activity(dict1, dict2) == extend_loop(dict1, dict2, 1)

\* the mapping generate_activity returns
ActivityResult(window, afk, chrome, firefox) ==
  Dict(BucketOrder, << window, afk, chrome, firefox >>)

\* day.isoweekday(): 1 for Monday ... 7 for Sunday; day 0 is a Monday
isoweekday(day) == (day % DaysPerWeek) + 1

\* datetime.combine(day, time()): midnight UTC of the date
combine(day) == day * SecondsPerDay

\* t.date()
date(t) == t \div SecondsPerDay

\* SecondStop without the break added
SecondStop_nobreak(day_stop, break_duration) == day_stop

\* the end of the second interval generate_day hands to generate_activity
SecondStop(day_stop, break_duration) == day_stop + break_duration

\* the instants generate_day computes before it generates: the day's start and
\* stop, the break, and the state of the source after the two draws
DayPlan(day, r) ==
  LET start == combine(day) + day_offset_hours * SecondsPerHour
      is_workday == isoweekday(day) \in 1..5
      r1 == NextRng(r)
      day_duration == IF is_workday
                        THEN uniform(5 * SecondsPerHour, 10 * SecondsPerHour, r1)
                        ELSE uniform(1 * SecondsPerHour, 5 * SecondsPerHour, r1)
      day_stop == start + day_duration
      break_start == start + (day_stop - start) \div 2
      r2 == NextRng(r1)
      break_duration == uniform(60 * SecondsPerMinute, 120 * SecondsPerMinute, r2)
      break_stop == break_start + break_duration
  IN [day |-> day, start |-> start, stop |-> day_stop,
      day_duration |-> day_duration, break_start |-> break_start,
      break_duration |-> break_duration, break_stop |-> break_stop,
      second_stop |-> SecondStop(day_stop, break_duration), rng |-> r2]

\* the dates daterange(d1, d2, inclusive) yields, in order
RECURSIVE daterange_loop(_, _, _, _)
daterange_loop(t, d2, inclusive, out) ==
  IF t < d2
    THEN daterange_loop(t + SecondsPerDay, d2, inclusive, Append(out, date(t)))
    ELSE IF inclusive THEN Append(out, date(t)) ELSE out

daterange(d1, d2, inclusive) == daterange_loop(d1, d2, inclusive, << >>)

\* random.seed left out
random_seed_skipped(r, x) == r

\* random.seed(x) on the source in state r
random_seed(r, x) == seed(x)

\* insert_events called for non-empty event lists only
insert_events_nonempty(calls, bucketid, evs) ==
  IF evs = << >> THEN calls ELSE Append(calls, [bucketid |-> bucketid, events |-> evs])

\* client.insert_events(bucketid, events), appended to the calls made so far
insert_events(calls, bucketid, evs) ==
  Append(calls, [bucketid |-> bucketid, events |-> evs])

\* ------------------------------------------------------------------- state
VARIABLES
  rng,        \* state of the process-wide random source
  consumed,   \* draws other code has taken from the source
  pc,         \* position of the process: "idle", "pack" (loop test of random_events),
              \* "windows" / "firefox" / "chrome" (loops of generate_activity),
              \* "days" (loop of generate_days), "submitting" (loop of generate),
              \* "returned" (the function called directly has returned)
  op,         \* the function called from outside
  args,       \* its arguments
  result,     \* the mapping it returned
  \* random_events
  start, ts, stop, sample_data, events,
  ret,        \* the call site random_events returns to
  \* generate_activity
  span,       \* its arguments (start, end)
  act_ret,    \* the call site it returns to
  events_afk, events_window, events_browser_chrome, events_browser_firefox,
  i,          \* index of event in the loop over events_afk
  j,          \* index of event in the loop over events_window
  \* generate_day
  plan,       \* start, stop and the break of the day
  d1,         \* the value of the first generate_activity call
  day_ret,    \* the call site it returns to
  \* generate_days
  days,       \* the dates daterange yields
  k,          \* index of day in the loop over them
  buckets,
  days_ret,   \* the call site it returns to
  \* generate
  pending,    \* index of the next item of buckets
  submitted,  \* the insert_events calls made, in order
  last,       \* boundaries and insert_events calls of the last completed run
  runs        \* completed runs

packVars == << start, ts, stop, sample_data, events, ret >>
actVars == << span, act_ret, events_afk, events_window, events_browser_chrome,
              events_browser_firefox, i, j >>
dayVars == << plan, d1, day_ret >>
daysVars == << days, k, buckets, days_ret >>
genVars == << pending, submitted, last, runs >>
topVars == << op, args, result >>

vars == << rng, consumed, pc, topVars, packVars, actVars, dayVars, daysVars, genVars >>

Args(a, b, c) == [start |-> a, stop |-> b, sample |-> c]

NoRun == [start |-> -1, stop |-> -1, submitted |-> << >>]

Catalog(name) ==
  CASE name = "afk" -> sample_data_afk
    [] name = "window" -> sample_data_window
    [] name = "browser" -> sample_data_browser

SeedStates == { seed(n) : n \in 0..MaxSeed }

\* range boundaries: a midnight start, and a stop at midnight or at 23:59:59
StartInstants == { combine(d) : d \in 0..MaxDay }

StopInstants ==
  { combine(d) + o : d \in 0..MaxDay, o \in {0, SecondsPerDay - 1} }

ActivityStart == combine(0) + day_offset_hours * SecondsPerHour

InitFrames ==
  /\ consumed = 0
  /\ result = EmptyDict
  /\ span = << 0, 0 >>
  /\ act_ret = "top"
  /\ events_afk = << >>
  /\ events_window = << >>
  /\ events_browser_chrome = << >>
  /\ events_browser_firefox = << >>
  /\ i = 1
  /\ j = 1
  /\ plan = DayPlan(0, 0)
  /\ d1 = EmptyDict
  /\ day_ret = "top"
  /\ days = << >>
  /\ k = 1
  /\ buckets = EmptyDict
  /\ days_ret = "top"
  /\ pending = 1
  /\ submitted = << >>
  /\ last = NoRun
  /\ runs = 0

Init ==
  /\ rng \in SeedStates
  /\ pc = "idle"
  /\ op = "none"
  /\ args = Args(0, 0, "none")
  /\ start = 0
  /\ ts = 0
  /\ stop = 0
  /\ sample_data = "afk"
  /\ events = << >>
  /\ ret = "top"
  /\ InitFrames

\* ----------------------------------------------------------------- actions
\* entry of random_events(a, b, Catalog(c)) called from the site site
EnterPack(a, b, c, site) ==
  /\ start' = a
  /\ ts' = a
  /\ stop' = b
  /\ sample_data' = c
  /\ events' = << >>
  /\ ret' = site
  /\ pc' = "pack"

\* entry of generate_activity(a, b) called from the site site: its first statement
\* is the call generate_afk(a, b)
EnterActivity(a, b, site) ==
  /\ span' = << a, b >>
  /\ act_ret' = site
  /\ events_afk' = << >>
  /\ events_window' = << >>
  /\ events_browser_chrome' = << >>
  /\ events_browser_firefox' = << >>
  /\ i' = 1
  /\ j' = 1
  /\ EnterPack(a, b, "afk", "afk")

\* entry of generate_day(day) called from the site site: the two draws, then the
\* first generate_activity call
EnterDay(day, site) ==
  /\ plan' = DayPlan(day, rng)
  /\ rng' = plan'.rng
  /\ d1' = EmptyDict
  /\ day_ret' = site
  /\ EnterActivity(plan'.start, plan'.break_start, "day1")

\* entry of generate_days(a, b) called from the site site
EnterDays(a, b, site) ==
  /\ days' = daterange(a, b, TRUE)
  /\ k' = 1
  /\ buckets' = EmptyDict
  /\ days_ret' = site
  /\ pc' = "days"

\* other code draws once from the shared source
Consume ==
  /\ pc = "idle"
  /\ consumed < MaxConsume
  /\ rng' = NextRng(rng)
  /\ consumed' = consumed + 1
  /\ UNCHANGED << pc, topVars, packVars, actVars, dayVars, daysVars, genVars >>

\* random_events(a, b, Catalog(c)) called from outside.  A behaviour calls one of
\* random_events, generate_activity, generate_day and generate_days, once, and
\* inspects what it returns (pc = "returned").
CallRandomEvents(a, b, c) ==
  /\ pc = "idle"
  /\ runs = 0
  /\ op' = "random_events"
  /\ args' = Args(a, b, c)
  /\ EnterPack(a, b, c, "top")
  /\ UNCHANGED << rng, consumed, result, actVars, dayVars, daysVars, genVars >>

\* one iteration of the loop of random_events
PackIterate ==
  /\ pc = "pack"
  /\ ts < stop
  /\ LET it == Iteration(ts, stop, Catalog(sample_data), duration_max_default, rng)
     IN /\ events' = Append(events, it.e)
        /\ ts' = ts + it.e.duration
        /\ rng' = it.rng
  /\ UNCHANGED << consumed, pc, topVars, start, stop, sample_data, ret, actVars,
                  dayVars, daysVars, genVars >>

\* random_events returns to the outside
PackReturn ==
  /\ pc = "pack"
  /\ ~(ts < stop)
  /\ ret = "top"
  /\ pc' = "returned"
  /\ UNCHANGED << rng, consumed, topVars, packVars, actVars, dayVars, daysVars,
                  genVars >>

\* generate_afk returns into generate_activity: events_afk = ...
AfkReturn ==
  /\ pc = "pack"
  /\ ~(ts < stop)
  /\ ret = "afk"
  /\ events_afk' = events
  /\ pc' = "windows"
  /\ UNCHANGED << rng, consumed, topVars, packVars, span, act_ret, events_window,
                  events_browser_chrome, events_browser_firefox, i, j, dayVars,
                  daysVars, genVars >>

\* one iteration of the loop over events_afk, up to the call of random_events
WindowLoop ==
  /\ pc = "windows"
  /\ i <= Len(events_afk)
  /\ LET event == events_afk[i]
     IN IF IsNotAfk(event)
          THEN /\ EnterPack(event.timestamp, event.timestamp + event.duration,
                            "window", "window")
               /\ UNCHANGED i
          ELSE /\ i' = i + 1
               /\ UNCHANGED << pc, packVars >>
  /\ UNCHANGED << rng, consumed, topVars, span, act_ret, events_afk, events_window,
                  events_browser_chrome, events_browser_firefox, j, dayVars,
                  daysVars, genVars >>

\* random_events returns into the loop over events_afk: events_window += ...
WindowReturn ==
  /\ pc = "pack"
  /\ ~(ts < stop)
  /\ ret = "window"
  /\ events_window' = events_window \o events
  /\ i' = i + 1
  /\ pc' = "windows"
  /\ UNCHANGED << rng, consumed, topVars, packVars, span, act_ret, events_afk,
                  events_browser_chrome, events_browser_firefox, j, dayVars,
                  daysVars, genVars >>

\* the loop over events_afk ends; the loop over events_window begins
WindowLoopExit ==
  /\ pc = "windows"
  /\ i > Len(events_afk)
  /\ pc' = "firefox"
  /\ UNCHANGED << rng, consumed, topVars, packVars, actVars, dayVars, daysVars,
                  genVars >>

\* one iteration of the loop over events_window: the firefox test
FirefoxCheck ==
  /\ pc = "firefox"
  /\ j <= Len(events_window)
  /\ LET event == events_window[j]
     IN IF IsFirefox(event)
          THEN EnterPack(event.timestamp, event.timestamp + event.duration,
                         "browser", "firefox")
          ELSE /\ pc' = "chrome"
               /\ UNCHANGED packVars
  /\ UNCHANGED << rng, consumed, topVars, actVars, dayVars, daysVars, genVars >>

\* generate_browser returns: events_browser_firefox += ...
FirefoxReturn ==
  /\ pc = "pack"
  /\ ~(ts < stop)
  /\ ret = "firefox"
  /\ events_browser_firefox' = events_browser_firefox \o events
  /\ pc' = "chrome"
  /\ UNCHANGED << rng, consumed, topVars, packVars, span, act_ret, events_afk,
                  events_window, events_browser_chrome, i, j, dayVars, daysVars,
                  genVars >>

\* the same iteration: the chrome test
ChromeCheck ==
  /\ pc = "chrome"
  /\ LET event == events_window[j]
     IN IF IsChrome(event)
          THEN /\ EnterPack(event.timestamp, event.timestamp + event.duration,
                            "browser", "chrome")
               /\ UNCHANGED j
          ELSE /\ j' = j + 1
               /\ pc' = "firefox"
               /\ UNCHANGED packVars
  /\ UNCHANGED << rng, consumed, topVars, span, act_ret, events_afk, events_window,
                  events_browser_chrome, events_browser_firefox, i, dayVars,
                  daysVars, genVars >>

\* generate_browser returns: events_browser_chrome += ...
ChromeReturn ==
  /\ pc = "pack"
  /\ ~(ts < stop)
  /\ ret = "chrome"
  /\ events_browser_chrome' = events_browser_chrome \o events
  /\ j' = j + 1
  /\ pc' = "firefox"
  /\ UNCHANGED << rng, consumed, topVars, packVars, span, act_ret, events_afk,
                  events_window, events_browser_firefox, i, dayVars, daysVars,
                  genVars >>

\* the return statement of generate_activity is reached
AtActivityReturn == pc = "firefox" /\ j > Len(events_window)

ActivityValue ==
  ActivityResult(events_window, events_afk, events_browser_chrome,
                 events_browser_firefox)

\* generate_activity(a, b) called from outside
CallActivity(a, b) ==
  /\ pc = "idle"
  /\ runs = 0
  /\ op' = "generate_activity"
  /\ args' = Args(a, b, "none")
  /\ EnterActivity(a, b, "top")
  /\ UNCHANGED << rng, consumed, result, dayVars, daysVars, genVars >>

\* generate_activity returns to the outside
ActivityReturn ==
  /\ AtActivityReturn
  /\ act_ret = "top"
  /\ result' = ActivityValue
  /\ pc' = "returned"
  /\ UNCHANGED << rng, consumed, op, args, packVars, actVars, dayVars, daysVars,
                  genVars >>

\* the first generate_activity call of generate_day returns; the second is made
FirstHalfReturn ==
  /\ AtActivityReturn
  /\ act_ret = "day1"
  /\ d1' = ActivityValue
  /\ EnterActivity(plan.break_stop, plan.second_stop, "day2")
  /\ UNCHANGED << rng, consumed, topVars, plan, day_ret, daysVars, genVars >>

\* generate_day(day) called from outside
CallDay(day) ==
  /\ pc = "idle"
  /\ runs = 0
  /\ op' = "generate_day"
  /\ args' = Args(combine(day), combine(day), "none")
  /\ EnterDay(day, "top")
  /\ UNCHANGED << consumed, result, daysVars, genVars >>

\* the second generate_activity call returns; generate_day returns merge_activity
\* of the two to the outside
DayReturn ==
  /\ AtActivityReturn
  /\ act_ret = "day2"
  /\ day_ret = "top"
  /\ result' = merge_activity(d1, ActivityValue)
  /\ pc' = "returned"
  /\ UNCHANGED << rng, consumed, op, args, packVars, actVars, dayVars, daysVars,
                  genVars >>

\* the same, into the loop of generate_days: buckets[bucket] += events for every
\* item of the mapping generate_day returns
DayReturnToDays ==
  /\ AtActivityReturn
  /\ act_ret = "day2"
  /\ day_ret = "days"
  /\ buckets' = extend_loop(buckets, merge_activity(d1, ActivityValue), 1)
  /\ k' = k + 1
  /\ pc' = "days"
  /\ UNCHANGED << rng, consumed, topVars, packVars, actVars, dayVars, days,
                  days_ret, genVars >>

\* generate_days(a, b) called from outside
CallDays(a, b) ==
  /\ pc = "idle"
  /\ runs = 0
  /\ op' = "generate_days"
  /\ args' = Args(a, b, "none")
  /\ EnterDays(a, b, "top")
  /\ UNCHANGED << rng, consumed, result, packVars, actVars, dayVars, genVars >>

\* one iteration of the loop of generate_days, up to the call of generate_day
DaysLoop ==
  /\ pc = "days"
  /\ k <= Len(days)
  /\ EnterDay(days[k], "days")
  /\ UNCHANGED << consumed, topVars, daysVars, genVars >>

\* generate_days returns to the outside
DaysReturn ==
  /\ pc = "days"
  /\ k > Len(days)
  /\ days_ret = "top"
  /\ result' = buckets
  /\ pc' = "returned"
  /\ UNCHANGED << rng, consumed, op, args, packVars, actVars, dayVars, daysVars,
                  genVars >>

\* generate(client, a, b) called from outside: seed the source, call generate_days.
\* A behaviour holds up to MaxRuns runs; a later run repeats the boundaries of the
\* first.
GenerateBegin(a, b) ==
  /\ pc = "idle"
  /\ runs < MaxRuns
  /\ runs > 0 => (a = last.start /\ b = last.stop)
  /\ op' = "generate"
  /\ args' = Args(a, b, "none")
  /\ rng' = random_seed(rng, a + b)
  /\ EnterDays(a, b, "generate")
  /\ pending' = 1
  /\ submitted' = << >>
  /\ UNCHANGED << consumed, result, packVars, actVars, dayVars, last, runs >>

\* generate_days returns into generate: the loop over buckets.items() begins
DaysReturnToGenerate ==
  /\ pc = "days"
  /\ k > Len(days)
  /\ days_ret = "generate"
  /\ pc' = "submitting"
  /\ UNCHANGED << rng, consumed, topVars, packVars, actVars, dayVars, daysVars,
                  genVars >>

\* one iteration of the loop of generate: client.insert_events(bucketid, events)
Submit ==
  /\ pc = "submitting"
  /\ pending <= Len(buckets.keys)
  /\ submitted' = insert_events(submitted, buckets.keys[pending],
                                buckets.items[pending])
  /\ pending' = pending + 1
  /\ UNCHANGED << rng, consumed, pc, topVars, packVars, actVars, dayVars, daysVars,
                  last, runs >>

\* generate returns
GenerateReturn ==
  /\ pc = "submitting"
  /\ pending > Len(buckets.keys)
  /\ pc' = "idle"
  /\ result' = buckets
  /\ last' = [start |-> args.start, stop |-> args.stop, submitted |-> submitted]
  /\ runs' = runs + 1
  /\ UNCHANGED << rng, consumed, op, args, packVars, actVars, dayVars, daysVars,
                  pending, submitted >>

Next ==
  \/ Consume
  \/ \E n \in 0..MaxPackLen, c \in {"afk", "window", "browser"} :
       CallRandomEvents(ActivityStart, ActivityStart + n * (SecondsPerHour \div 2), c)
  \/ PackIterate
  \/ PackReturn
  \/ \E h \in 0..MaxActHours :
       CallActivity(ActivityStart, ActivityStart + h * SecondsPerHour)
  \/ AfkReturn
  \/ WindowLoop
  \/ WindowReturn
  \/ WindowLoopExit
  \/ FirefoxCheck
  \/ FirefoxReturn
  \/ ChromeCheck
  \/ ChromeReturn
  \/ ActivityReturn
  \/ \E day \in 0..(DaysPerWeek - 1) : CallDay(day)
  \/ FirstHalfReturn
  \/ DayReturn
  \/ DayReturnToDays
  \/ \E a \in StartInstants, b \in StopInstants : CallDays(a, b)
  \/ DaysLoop
  \/ DaysReturn
  \/ \E a \in StartInstants, b \in StopInstants : GenerateBegin(a, b)
  \/ DaysReturnToGenerate
  \/ Submit
  \/ GenerateReturn

Spec == Init /\ [][Next]_vars

\* random_events alone, called from outside; the process is sequential and nothing
\* suspends it, so a loop iteration or a return that is due is taken
NextPack ==
  \/ Consume
  \/ \E n \in 0..MaxPackLen, c \in {"afk", "window", "browser"} :
       CallRandomEvents(ActivityStart, ActivityStart + n * (SecondsPerHour \div 2), c)
  \/ PackIterate
  \/ PackReturn

SpecPack ==
  Init /\ [][NextPack]_vars /\ WF_vars(PackIterate) /\ WF_vars(PackReturn)

\* ------------------------------------------------------------------ claims
End(e) == e.timestamp + e.duration

Contained(e, outer) == outer.timestamp <= e.timestamp /\ End(e) <= End(outer)

Disjoint(e, f) == End(e) <= f.timestamp \/ End(f) <= e.timestamp

Elems(s) == { s[n] : n \in 1..Len(s) }

\* event[n].end <= event[n+1].start for every consecutive pair
Ordered(s) == \A n \in 1..(Len(s) - 1) : End(s[n]) <= s[n + 1].timestamp

\* the events of s cover [a, b) without gap or overlap, in order
Tiles(s, a, b) ==
  /\ Len(s) >= 1
  /\ s[1].timestamp = a
  /\ \A n \in 1..(Len(s) - 1) : s[n + 1].timestamp = End(s[n])
  /\ End(s[Len(s)]) = b

\* a function called from outside has returned a mapping, which result holds
Returned(name) ==
  \/ pc = "returned" /\ op = name
  \/ pc = "idle" /\ op = name /\ name = "generate"

ReturnedMapping ==
  \/ Returned("generate_activity")
  \/ Returned("generate_day")
  \/ Returned("generate_days")
  \/ Returned("generate")

\* the loop of random_events has ended: events is the value it returns
PackDone == pc = "pack" /\ ~(ts < stop)

\* C1: in the mapping generate_days returns (also when generate called it), every
\* consecutive pair of events of every bucket satisfies
\* event[n].timestamp + event[n].duration <= event[n+1].timestamp, across the two
\* intervals of a day and across days
C1_BucketsOrdered ==
  (Returned("generate_days") \/ Returned("generate"))
    => \A b \in BucketIds : Ordered(Get(result, b))

\* C1 witness: generate_days has returned events of two different days, and in one
\* of the days the AFK events of both intervals
C1_Witness ==
  /\ Returned("generate_days")
  /\ Len(days) >= 2
  /\ \E e, f \in Elems(Get(result, bucket_window)) : date(e.timestamp) /= date(f.timestamp)
  /\ \E e, f \in Elems(Get(result, bucket_afk)) :
       /\ date(e.timestamp) = date(f.timestamp)
       /\ End(e) < f.timestamp

\* C2: in every mapping returned, every window event lies within some AFK event
\* whose status is "not-afk", and none lies within an AFK event whose status is "afk"
C2_WindowInsideNotAfk ==
  ReturnedMapping
    => \A w \in Elems(Get(result, bucket_window)) :
         /\ \E a \in Elems(Get(result, bucket_afk)) :
              a.data.status = "not-afk" /\ Contained(w, a)
         /\ \A a \in Elems(Get(result, bucket_afk)) :
              a.data.status = "afk" => ~Contained(w, a)

\* C2 witness: generate_activity has returned AFK events of both statuses and a
\* window event
C2_Witness ==
  /\ Returned("generate_activity")
  /\ \E a, b \in Elems(Get(result, bucket_afk)) :
       a.data.status = "afk" /\ b.data.status = "not-afk"
  /\ Len(Get(result, bucket_window)) >= 2

\* C3: in every mapping returned, every browser-Firefox event lies within a window
\* event whose app is "firefox" in lower case, every browser-Chrome event within
\* one whose app is "chrome" in lower case, and no browser event of either bucket
\* overlaps a window event of another app
C3_BrowserInsideMatchingWindow ==
  ReturnedMapping
    => LET window == Elems(Get(result, bucket_window))
           firefox == Elems(Get(result, bucket_browser_firefox))
           chrome == Elems(Get(result, bucket_browser_chrome))
       IN /\ \A e \in firefox :
               \E w \in window : lower(w.data.app) = "firefox" /\ Contained(e, w)
          /\ \A e \in chrome :
               \E w \in window : lower(w.data.app) = "chrome" /\ Contained(e, w)
          /\ \A w \in window :
               lower(w.data.app) \notin {"firefox", "chrome"}
                 => \A e \in firefox \cup chrome : Disjoint(e, w)

\* C3 witness: generate_activity has returned events in both browser buckets and a
\* window event of an app that is no browser
C3_Witness ==
  /\ Returned("generate_activity")
  /\ Len(Get(result, bucket_browser_firefox)) >= 1
  /\ Len(Get(result, bucket_browser_chrome)) >= 1
  /\ \E w \in Elems(Get(result, bucket_window)) :
       lower(w.data.app) \notin {"firefox", "chrome"}

\* C4: whenever random_events(start, stop, catalog) with start < stop returns, its
\* events tile [start, stop): the first starts at start, each next one starts
\* where the one before ends, timestamps strictly increase, no event ends after
\* stop and the last ends at stop
C4_EventsTileInterval ==
  (PackDone /\ start < stop)
    => /\ Tiles(events, start, stop)
       /\ \A n \in 1..(Len(events) - 1) : events[n].timestamp < events[n + 1].timestamp
       /\ \A n \in 1..Len(events) : End(events[n]) <= stop

\* C4 witness: random_events returns several events, the last one cut short of the
\* least duration its template can draw
C4_Witness ==
  /\ PackDone
  /\ start < stop
  /\ Len(events) >= 3
  /\ events[Len(events)].duration
       < DrawDuration(events[Len(events)].data, duration_max_default, 0)

\* the insert_events calls of the run of generate in progress are complete
RunComplete == pc = "submitting" /\ pending > Len(buckets.keys)

\* C5: a run of generate with the boundaries of the run before it makes the same
\* insert_events calls (buckets, order, events), whatever the state of the random
\* source was before either run
C5_SameBoundariesSameOutput ==
  (RunComplete /\ runs >= 1 /\ args.start = last.start /\ args.stop = last.stop)
    => submitted = last.submitted

\* C5 witness: a second run over the same boundaries is complete, other code drew
\* from the source, and events were handed over
C5_Witness ==
  /\ RunComplete
  /\ runs >= 1
  /\ args.start = last.start
  /\ args.stop = last.stop
  /\ consumed >= 1
  /\ \E n \in 1..Len(submitted) : Len(submitted[n].events) >= 2

\* C6: for a range that starts at midnight and stops later on the same date,
\* generate_days calls generate_day for exactly one date and every event returned
\* has its timestamp on that date
C6_OneDayRange ==
  ((Returned("generate_days") \/ Returned("generate"))
     /\ args.start = combine(date(args.start))
     /\ args.start < args.stop
     /\ date(args.stop) = date(args.start))
    => /\ Len(days) = 1
       /\ \A b \in BucketIds : \A e \in Elems(Get(result, b)) :
            date(e.timestamp) = date(args.start)

\* C7 as stated: the AFK events generate_day returns cover
\* [dayStart+8h, dayStart+8h+duration) without gaps
C7_AfkCoversActiveSpan ==
  Returned("generate_day")
    => Tiles(Get(result, bucket_afk),
             combine(plan.day) + day_offset_hours * SecondsPerHour,
             combine(plan.day) + day_offset_hours * SecondsPerHour + plan.day_duration)

\* C7 amended: the AFK events generate_day returns are those of two intervals,
\* [dayStart+8h, break_start) and [break_stop, dayStart+8h+duration+break_duration),
\* each covered without gaps, where break_start is the midpoint of the drawn span
\* and break_stop - break_start = break_duration is the drawn break of 60 to 120
\* minutes: the first AFK event starts at dayStart+8h, the only gap between
\* consecutive AFK events is the break, and the last one ends at
\* dayStart+8h+duration+break_duration
C7_AfkCoversTwoHalves ==
  Returned("generate_day")
    => LET afk == Get(result, bucket_afk)
           day_start == combine(plan.day) + day_offset_hours * SecondsPerHour
           break_start == day_start + plan.day_duration \div 2
           break_stop == break_start + plan.break_duration
       IN /\ plan.break_duration \in (60 * SecondsPerMinute)..(120 * SecondsPerMinute)
          /\ \E n \in 1..(Len(afk) - 1) :
               /\ Tiles(SubSeq(afk, 1, n), day_start, break_start)
               /\ Tiles(SubSeq(afk, n + 1, Len(afk)), break_stop,
                        day_start + plan.day_duration + plan.break_duration)

\* C7 witness: generate_day has returned for a weekend day, with several AFK events
\* on either side of the break
C7_Witness ==
  /\ Returned("generate_day")
  /\ isoweekday(plan.day) \in {6, 7}
  /\ \E n \in 2..(Len(Get(result, bucket_afk)) - 2) :
       End(Get(result, bucket_afk)[n]) < Get(result, bucket_afk)[n + 1].timestamp

\* C8: generate called with stop <= start fails before it draws: no day is
\* generated and no bucket is handed over
C8_InvalidRangeRejected ==
  (op = "generate" /\ args.stop <= args.start)
    => Len(days) = 0 /\ Len(submitted) = 0

\* C9 as stated: generate calls insert_events for non-empty event lists only
C9_OnlyNonEmptySubmitted ==
  \A n \in 1..Len(submitted) : Len(submitted[n].events) >= 1

\* C9 amended: when generate_days has returned, generate calls insert_events once
\* for every bucket of the mapping, in the order of its keys and with the bucket's
\* event list, whether that list is empty or not
C9_EveryBucketSubmitted ==
  RunComplete
    => /\ Len(submitted) = Len(buckets.keys)
       /\ \A n \in 1..Len(submitted) :
            /\ submitted[n].bucketid = buckets.keys[n]
            /\ submitted[n].events = buckets.items[n]
       /\ { submitted[n].bucketid : n \in 1..Len(submitted) } = BucketIds

\* C9 witness: a run is complete in which an empty event list was handed over
C9_Witness ==
  /\ RunComplete
  /\ \E n \in 1..Len(submitted) : submitted[n].events = << >>
  /\ \E n \in 1..Len(submitted) : submitted[n].events /= << >>

\* C10: called on a finite interval with one of the built-in catalogs,
\* random_events returns: every event it emits has a strictly positive duration, so
\* the cursor, which is start plus the durations emitted, strictly advances and
\* reaches stop
C10_PackerTerminates ==
  /\ [](\A n \in 1..Len(events) : events[n].duration > 0)
  /\ [][pc = "pack" /\ pc' = "pack" => ts' > ts]_vars
  /\ (pc = "pack") ~> (pc = "returned")

\* C10 witness: random_events, called with the window catalog, has returned after
\* several iterations
C10_Witness ==
  /\ pc = "returned"
  /\ op = "random_events"
  /\ Len(events) >= 3
  /\ args.sample = "window"

====
